---- MODULE Spec2Model ----
(***************************************************************************)
(* Model of the text-batching code of src/src/App.js: the typed-array      *)
(* helpers fillTypedArraySequence and mergeTypedArrays, the per-string     *)
(* geometry of createTextAttributes, the merge of buildMergedText and the  *)
(* per-frame upload of updateText.                                         *)
(*                                                                         *)
(* Four specifications share the variables:                                *)
(*   SpecFill   one call of fillTypedArraySequence, one loop turn a step   *)
(*   SpecMerge  one call of mergeTypedArrays                               *)
(*   SpecBuild  one call of buildMergedText                                *)
(*   Spec       the page: init(), then the ticker callback                 *)
(***************************************************************************)
EXTENDS Integers, Sequences, FiniteSets, TLC

(***************************************************************************)
(* Bounds of the model.                                                    *)
(***************************************************************************)
\* longest target array of a fillTypedArraySequence call
MaxLen == 6
\* longest pattern of a fillTypedArraySequence call
MaxPattern == 3
\* most buffers handed to one mergeTypedArrays call
MaxBuffers == 2
\* longest buffer handed to mergeTypedArrays
MaxBufLen == 2
\* most strings (and offsets, and scales) handed to one buildMergedText call
MaxInstances == 2
\* most glyphs of one string handed to buildMergedText
MaxGlyphs == 2
\* x and y extent of the grid of updateText (10 and 10 in the source)
GridX == 2
GridY == 1
\* latest reading of performance.now() / 1000, in whole seconds
MaxTime == 3

(***************************************************************************)
(* Program constants.                                                      *)
(***************************************************************************)
\* element range of a Uint16Array
Uint16Range == 65536
\* longest string Math.random().toString(16).slice(2, 5) yields
MaxStringLength == 3
\* floats per vertex of every attribute (positions.length / 2, vertexCount * 2)
Components == 2
\* vertices and indices quad-indices and the font geometry give one glyph
VerticesPerGlyph == 4
IndicesPerGlyph == 6
\* significand width of a Float32Array element
Float32Bits == 24

(***************************************************************************)
(* Numbers.  A JavaScript number m * 2^e is the record [m, e], m odd (or   *)
(* zero with e = 0), so that equal numbers are equal records.  A           *)
(* Float32Array element is such a number with |m| < 2^24.                  *)
(***************************************************************************)
RECURSIVE Normalize(_, _)
Normalize(m, e) ==
  IF m = 0 THEN [m |-> 0, e |-> 0]
  ELSE IF m % 2 = 0 THEN Normalize(m \div 2, e + 1)
  ELSE [m |-> m, e |-> e]

NumOfInt(k) == Normalize(k, 0)

Zero == [m |-> 0, e |-> 0]

Abs(x) == IF x < 0 THEN -x ELSE x

Min(a, b) == IF a < b THEN a ELSE b

Max(a, b) == IF a > b THEN a ELSE b

RECURSIVE BitLength(_)
BitLength(a) == IF a = 0 THEN 0 ELSE 1 + BitLength(a \div 2)

\* The conversion of a number to a Float32Array element: round to 24
\* significant bits, ties to even.
Fround(x) ==
  LET a == Abs(x.m)
      s == BitLength(a) - Float32Bits
  IN IF s <= 0 THEN x
     ELSE LET q == a \div (2 ^ s)
              r == a % (2 ^ s)
              half == 2 ^ (s - 1)
              up == r > half \/ (r = half /\ q % 2 = 1)
              q2 == IF up THEN q + 1 ELSE q
          IN Normalize(IF x.m < 0 THEN -q2 ELSE q2, x.e + s)

\* The integer part of a number, toward zero.
Truncate(x) ==
  IF x.e >= 0 THEN x.m * (2 ^ x.e)
  ELSE LET q == Abs(x.m) \div (2 ^ (-x.e))
       IN IF x.m < 0 THEN -q ELSE q

\* The conversion of an integer to a Uint16Array element.
ToUint16(k) == k % Uint16Range

\* What typedArray.set and the typed-array constructors store of element v of
\* an array of type `from` into an array of type `to`.
ConvertElement(from, to, v) ==
  IF from = to THEN v
  ELSE IF to = "Uint16Array" THEN ToUint16(Truncate(v))
  ELSE Fround(NumOfInt(v))

\* a function on 1..n as the sequence it is
AsSeq(f) == f \o <<>>

\* new Float32Array(n), new Uint16Array(n): n zeros
ZeroOf(type) == IF type = "Uint16Array" THEN 0 ELSE Zero

NewTypedArray(type, n) ==
  [type |-> type, data |-> AsSeq([k \in 1..n |-> ZeroOf(type)])]

VARIABLES
  \* SpecFill: the locals of fillTypedArraySequence
  typedArray, sequence, sequenceLength, position, fillPc, lastCopy,
  \* SpecMerge: the argument and the outcome of mergeTypedArrays
  typedArrays, mergeArg, merged, mergePc,
  \* SpecBuild: the arguments and the outcome of buildMergedText
  bFont, textArray, offsets, scales, built, buildPc,
  \* Spec: the page
  strings, font, geometry, now, pc, rebuild

fillVars == <<typedArray, sequence, sequenceLength, position, fillPc, lastCopy>>
mergeVars == <<typedArrays, mergeArg, merged, mergePc>>
buildVars == <<bFont, textArray, offsets, scales, built, buildPc>>
pageVars == <<strings, font, geometry, now, pc, rebuild>>
vars == <<fillVars, mergeVars, buildVars, pageVars>>

None == [status |-> "none"]

FillIdle ==
  /\ typedArray = <<>> /\ sequence = <<>> /\ sequenceLength = 0
  /\ position = 0 /\ fillPc = "idle" /\ lastCopy = <<0, 0>>
MergeIdle ==
  /\ typedArrays = <<>> /\ mergeArg = <<>> /\ merged = None /\ mergePc = "idle"
BuildIdle ==
  /\ bFont = "undefined" /\ textArray = <<>> /\ offsets = <<>> /\ scales = <<>>
  /\ built = None /\ buildPc = "idle"
PageIdle ==
  /\ strings = <<>> /\ font = "undefined" /\ geometry = None /\ now = 0
  /\ pc = "idle" /\ rebuild = None

\* the sequences over S of length lo..hi
SeqsOf(S, lo, hi) == UNION {[1..n -> S] : n \in lo..hi}

(***************************************************************************)
(* fillTypedArraySequence (App.js 262-277)                                 *)
(***************************************************************************)
\* typedArray.set(sequence): the first Len(src) elements become src
ArraySet(arr, src) == src \o SubSeq(arr, Len(src) + 1, Len(arr))

\* how many elements typedArray.copyWithin(target, start, end) copies in an
\* array of length len: the count is clamped to what fits behind target
CopyCount(len, target, start, end) ==
  Max(Min((IF end < 0 THEN Max(len + end, 0) ELSE Min(end, len)) - Min(start, len),
          len - Min(target, len)), 0)

\* the copy itself: count elements from `from` to `to` (offsets from 0)
CopyRange(arr, to, from, count) ==
  SubSeq(arr, 1, to) \o SubSeq(arr, from + 1, from + count)
    \o SubSeq(arr, to + count + 1, Len(arr))

CopyWithin(arr, target, start, end) ==
  CopyRange(arr, Min(target, Len(arr)), Min(start, Len(arr)),
            CopyCount(Len(arr), target, start, end))

\* the loop that never shortens its last chunk
ClampLengthUnclamped(pos, seqLen, length) == seqLen

\* line 270: if (position + sequenceLength > length) sequenceLength = length - position
ClampLength(pos, seqLen, length) ==
  IF pos + seqLen > length THEN length - pos ELSE seqLen

\* the shift that quadruples: sequenceLength <<= 2
ShiftLeft1Twice(x) == x * 4

\* line 273: sequenceLength <<= 1, on 32-bit integers
ShiftLeft1(x) ==
  IF x >= 1073741824 THEN (x - 1073741824) * 2 - 2147483647 - 1
  ELSE IF x < -1073741824 THEN (x + 1073741824) * 2 + 1073741824 + 1073741824
  ELSE x * 2

\* lines 271-273 with the chunk length sl of line 270
TurnWith(arr, pos, sl, len) ==
  [array |-> CopyWithin(arr, pos, 0, sl),
   position |-> pos + sl,
   sequenceLength |-> ShiftLeft1(sl),
   copied |-> <<Min(pos, len), Min(pos, len) + CopyCount(len, pos, 0, sl)>>]

\* one turn of the while loop, lines 270-273
FillTurn(arr, pos, seqLen) ==
  TurnWith(arr, pos, ClampLength(pos, seqLen, Len(arr)), Len(arr))

\* the element values a pattern is drawn from
PatternValues == 1..2

InitFill ==
  /\ \E n \in 0..MaxLen : typedArray = [k \in 1..n |-> 0]
  /\ sequence \in SeqsOf(PatternValues, 0, MaxPattern)
  /\ sequenceLength = 0
  /\ position = 0
  /\ fillPc = "start"
  /\ lastCopy = <<0, 0>>
  /\ MergeIdle /\ BuildIdle /\ PageIdle

\* lines 263-267: the locals, then typedArray.set(sequence), which throws a
\* RangeError and writes nothing when the sequence is longer than the array
FillStart ==
  /\ fillPc = "start"
  /\ sequenceLength' = Len(sequence)
  /\ position' = Len(sequence)
  /\ IF Len(sequence) > Len(typedArray)
     THEN /\ fillPc' = "threw"
          /\ typedArray' = typedArray
          /\ lastCopy' = lastCopy
     ELSE /\ fillPc' = "loop"
          /\ typedArray' = ArraySet(typedArray, sequence)
          /\ lastCopy' = <<0, Len(sequence)>>
  /\ UNCHANGED <<sequence, mergeVars, buildVars, pageVars>>

\* lines 269-274: one turn of the loop
FillIterate ==
  /\ fillPc = "loop"
  /\ position < Len(typedArray)
  /\ LET t == FillTurn(typedArray, position, sequenceLength)
     IN /\ typedArray' = t.array
        /\ position' = t.position
        /\ sequenceLength' = t.sequenceLength
        /\ lastCopy' = t.copied
  /\ UNCHANGED <<sequence, fillPc, mergeVars, buildVars, pageVars>>

\* lines 269, 276: the loop ends and the array is returned
FillReturn ==
  /\ fillPc = "loop"
  /\ ~(position < Len(typedArray))
  /\ fillPc' = "done"
  /\ UNCHANGED <<typedArray, sequence, sequenceLength, position, lastCopy,
                 mergeVars, buildVars, pageVars>>

NextFill == FillStart \/ FillIterate \/ FillReturn

SpecFill == InitFill /\ [][NextFill]_vars

\* the loop runs as long as its condition holds: nothing else is scheduled
SpecFillFair == SpecFill /\ WF_vars(NextFill)

(***************************************************************************)
(* Claims about fillTypedArraySequence                                     *)
(***************************************************************************)
\* the precondition of the broadcast: 1 <= pattern.length <= targetLength
ValidPattern == 1 <= Len(sequence) /\ Len(sequence) <= Len(typedArray)

\* C3: for every pattern P with 1 <= |P| <= L the returned array holds
\* out[k] = P[k mod |P|] for every 0 <= k < L, whether or not |P| divides L.
C3_FillIsNaiveRepetition ==
  (fillPc = "done" /\ ValidPattern) =>
    \A k \in 0..(Len(typedArray) - 1) :
      typedArray[k + 1] = sequence[(k % Len(sequence)) + 1]

\* C3's case: a two-element pattern in a five-element array, the last chunk cut
C3_Witness ==
  /\ fillPc = "done"
  /\ sequence = <<1, 2>>
  /\ typedArray = <<1, 2, 1, 2, 1>>

\* C6: a call with an empty pattern, or a pattern longer than the target, fails
\* at once with an error and returns nothing: once the call has begun it has thrown.
C6_InvalidPatternThrows ==
  (fillPc # "start" /\ ~ValidPattern) => fillPc = "threw"

\* C10: with 1 <= s <= L the loop terminates: every turn moves the write
\* position forward, its copy writes only the cells [position, L) (and exactly
\* up to the new position), and the loop leaves with position = L.
C10_TurnWritesForward ==
  (ValidPattern /\ fillPc = "loop" /\ fillPc' = "loop") =>
    /\ position' > position
    /\ position' <= Len(typedArray)
    /\ lastCopy' = <<position, position'>>
    /\ \A k \in 1..Len(typedArray) :
         (k <= position \/ k > position') => typedArray'[k] = typedArray[k]

RECURSIVE SumLengths(_, _)
\* lines 244-248: length += typedArrays[i].length
SumLengths(arrs, i) ==
  IF i > Len(arrs) THEN 0 ELSE Len(arrs[i].data) + SumLengths(arrs, i + 1)

\* line 255: array.set(typedArrays[i], currentLength), each element converted
\* to the element type of `array`
Converted(src, type) ==
  IF src.type = type THEN src.data
  ELSE AsSeq([k \in 1..Len(src.data) |-> ConvertElement(src.type, type, src.data[k])])

TypedSet(array, src, offset) ==
  [type |-> array.type,
   data |-> SubSeq(array.data, 1, offset) \o Converted(src, array.type)
              \o SubSeq(array.data, offset + Len(src.data) + 1, Len(array.data))]

\* the offset that is never advanced
NextOffsetStuck(currentLength, buf) == currentLength

\* line 256: currentLength += typedArrays[i].length
NextOffset(currentLength, buf) == currentLength + Len(buf.data)

RECURSIVE MergeLoop(_, _, _, _)
\* lines 254-257
MergeLoop(arrs, i, array, currentLength) ==
  IF i > Len(arrs) THEN array
  ELSE MergeLoop(arrs, i + 1, TypedSet(array, arrs[i], currentLength),
                 NextOffset(currentLength, arrs[i]))

\* typedArrays[0].constructor of an empty list is a property of undefined: TypeError
mergeTypedArrays(arrs) ==
  IF Len(arrs) = 0 THEN [status |-> "threw", error |-> "TypeError"]
  ELSE [status |-> "returned",
        value |-> MergeLoop(arrs, 1, NewTypedArray(arrs[1].type, SumLengths(arrs, 1)), 0)]

\* the elements the buffers of a mergeTypedArrays call are drawn from:
\* 1 and 40000, and 1.5 and -1
Uint16Values == {1, 40000}
Float32Values == {[m |-> 3, e |-> -1], [m |-> -1, e |-> 0]}

TypedBuffers ==
  {[type |-> "Uint16Array", data |-> d] : d \in SeqsOf(Uint16Values, 0, MaxBufLen)}
  \cup {[type |-> "Float32Array", data |-> d] : d \in SeqsOf(Float32Values, 0, MaxBufLen)}

InitMerge ==
  /\ typedArrays \in SeqsOf(TypedBuffers, 0, MaxBuffers)
  /\ mergeArg = typedArrays
  /\ merged = None
  /\ mergePc = "start"
  /\ FillIdle /\ BuildIdle /\ PageIdle

\* the whole call: the input buffers are read, never written
MergeCall ==
  /\ mergePc = "start"
  /\ merged' = mergeTypedArrays(typedArrays)
  /\ mergePc' = merged'.status
  /\ UNCHANGED <<typedArrays, mergeArg, fillVars, buildVars, pageVars>>

NextMerge == MergeCall

SpecMerge == InitMerge /\ [][NextMerge]_vars

(***************************************************************************)
(* Claims about mergeTypedArrays                                           *)
(***************************************************************************)
SameTypes == \A i, j \in 1..Len(mergeArg) : mergeArg[i].type = mergeArg[j].type

\* C7: a call whose buffers do not all share one element type fails and
\* returns no buffer; it never returns the others converted to the first's type.
C7_MixedTypesThrow ==
  (mergePc # "start" /\ ~SameTypes) => (mergePc = "threw" /\ merged.status = "threw")

\* C8: for a non-empty list of buffers of one type the result is a new buffer of
\* that type whose length is the sum of the input lengths, element j of buffer i
\* at position |B0| + ... + |B(i-1)| + j, and the inputs are as they were.
C8_MergeIsConcatenation ==
  (mergePc # "start" /\ Len(mergeArg) >= 1 /\ SameTypes) =>
    /\ mergePc = "returned"
    /\ typedArrays = mergeArg
    /\ merged.value.type = mergeArg[1].type
    /\ Len(merged.value.data) = SumLengths(mergeArg, 1)
    /\ \A i \in 1..Len(mergeArg) : \A j \in 1..Len(mergeArg[i].data) :
         merged.value.data[SumLengths(SubSeq(mergeArg, 1, i - 1), 1) + j] = mergeArg[i].data[j]

\* C8's case: two non-empty buffers of one type, merged
C8_Witness ==
  /\ mergePc = "returned"
  /\ Len(mergeArg) = 2
  /\ mergeArg[1].type = mergeArg[2].type
  /\ mergeArg[1].data = <<1, 40000>>
  /\ mergeArg[2].data = <<40000>>
  /\ merged.value.data = <<1, 40000, 40000>>

(***************************************************************************)
(* fillTypedArraySequence as one call (App.js 262-277), for its callers    *)
(***************************************************************************)
RECURSIVE FillLoop(_, _, _), AfterTurn(_, _, _)
\* lines 269-274.  A turn that leaves position and sequenceLength as they
\* were (sequenceLength 0) is repeated for ever: the call never returns.
FillLoop(arr, pos, seqLen) ==
  IF pos < Len(arr) THEN AfterTurn(FillTurn(arr, pos, seqLen), pos, seqLen)
  ELSE [status |-> "returned", array |-> arr]

AfterTurn(t, pos, seqLen) ==
  IF t.position = pos /\ t.sequenceLength = seqLen THEN [status |-> "hang"]
  ELSE FillLoop(t.array, t.position, t.sequenceLength)

fillTypedArraySequence(arr, seq) ==
  IF Len(seq) > Len(arr) THEN [status |-> "threw", error |-> "RangeError"]
  ELSE FillLoop(ArraySet(arr, seq), Len(seq), Len(seq))

(***************************************************************************)
(* createTextAttributes (App.js 172-191).  A string is modelled by the     *)
(* number of glyphs createLayout lays out for it.                          *)
(***************************************************************************)
\* FontGeometryGenerator.getPositions: the k-th float (from 0) of a string's
\* positions, two per vertex, four vertices per glyph; a coordinate of its own
GlyphPosition(k) == NumOfInt(k + 1)

\* FontGeometryGenerator.getUvs: the k-th float of a string's uvs, in [0, 1)
GlyphUv(k) == Normalize(k + 1, -10)

\* quad-indices, clockwise: glyph q gives 4q + (0, 1, 2, 0, 2, 3)
QuadIndex(k) ==
  VerticesPerGlyph * (k \div IndicesPerGlyph) + <<0, 1, 2, 0, 2, 3>>[(k % IndicesPerGlyph) + 1]

\* lines 173-190; createLayout throws without a font
createTextAttributes(fnt, glyphs) ==
  IF fnt = "undefined" THEN [status |-> "threw", error |-> "Error"]
  ELSE [status |-> "returned",
        positions |-> [type |-> "Float32Array",
                       data |-> AsSeq([k \in 1..(VerticesPerGlyph * Components * glyphs) |->
                                         GlyphPosition(k - 1)])],
        uvs |-> [type |-> "Float32Array",
                 data |-> AsSeq([k \in 1..(VerticesPerGlyph * Components * glyphs) |->
                                   GlyphUv(k - 1)])],
        indices |-> [type |-> "Uint16Array",
                     data |-> AsSeq([k \in 1..(IndicesPerGlyph * glyphs) |->
                                       ToUint16(QuadIndex(k - 1))])]]

(***************************************************************************)
(* buildMergedText (App.js 193-241)                                        *)
(***************************************************************************)
\* lines 206-208: attributeCollection.indices[i] += maxIndex, in a Uint16Array
ShiftIndices(indices, maxIndex) ==
  [type |-> indices.type,
   data |-> AsSeq([k \in 1..Len(indices.data) |-> ToUint16(indices.data[k] + maxIndex)])]

\* one float per vertex instead of two
InstanceFloatsHalf(vertexCount) == vertexCount

\* lines 217, 221: new Float32Array(vertexCount * 2)
InstanceFloats(vertexCount) == vertexCount * Components

\* lines 218, 222: new Float32Array(offsets[i]); offsets[i] past the end of the
\* list is undefined, and new Float32Array(undefined) is empty
Float32ArrayOf(list, i) ==
  IF i > Len(list) THEN <<>>
  ELSE AsSeq([k \in 1..Len(list[i]) |-> Fround(list[i][k])])

\* lines 216-223: the broadcast of one offset or scale over the vertices
BroadcastBuffer(vertexCount, list, i) ==
  fillTypedArraySequence(NewTypedArray("Float32Array", InstanceFloats(vertexCount)).data,
                         Float32ArrayOf(list, i))

EmptyLists ==
  [maxIndex |-> 0, positionsArrays |-> <<>>, uvsArrays |-> <<>>,
   indicesArrays |-> <<>>, offsetsArrays |-> <<>>, scalesArrays |-> <<>>]

RECURSIVE BuildLoop(_, _, _, _, _, _)
\* lines 202-226: instance i (from 1), acc the lists and maxIndex so far
BuildLoop(fnt, texts, offs, scls, i, acc) ==
  IF i > Len(texts) THEN [status |-> "returned", lists |-> acc]
  ELSE
    LET attributeCollection == createTextAttributes(fnt, texts[i])
    IN IF attributeCollection.status = "threw" THEN attributeCollection
       ELSE
         LET vertexCount == Len(attributeCollection.positions.data) \div Components
             offsetsBuffer == BroadcastBuffer(vertexCount, offs, i)
         IN IF offsetsBuffer.status # "returned" THEN offsetsBuffer
            ELSE
              LET scalesBuffer == BroadcastBuffer(vertexCount, scls, i)
              IN IF scalesBuffer.status # "returned" THEN scalesBuffer
                 ELSE BuildLoop(fnt, texts, offs, scls, i + 1,
                        [maxIndex |-> acc.maxIndex + vertexCount,
                         positionsArrays |->
                           Append(acc.positionsArrays, attributeCollection.positions),
                         uvsArrays |-> Append(acc.uvsArrays, attributeCollection.uvs),
                         indicesArrays |->
                           Append(acc.indicesArrays,
                                  ShiftIndices(attributeCollection.indices, acc.maxIndex)),
                         offsetsArrays |->
                           Append(acc.offsetsArrays,
                                  [type |-> "Float32Array", data |-> offsetsBuffer.array]),
                         scalesArrays |->
                           Append(acc.scalesArrays,
                                  [type |-> "Float32Array", data |-> scalesBuffer.array])])

\* lines 193-241.  Every list has one entry per string, so the first merge of an
\* empty list throws and the others are never reached.
buildMergedText(fnt, texts, offs, scls) ==
  LET loop == BuildLoop(fnt, texts, offs, scls, 1, EmptyLists)
  IN IF loop.status # "returned" THEN loop
     ELSE LET mergedPositions == mergeTypedArrays(loop.lists.positionsArrays)
          IN IF mergedPositions.status # "returned" THEN mergedPositions
             ELSE [status |-> "returned",
                   positions |-> mergedPositions.value,
                   uvs |-> mergeTypedArrays(loop.lists.uvsArrays).value,
                   indices |-> mergeTypedArrays(loop.lists.indicesArrays).value,
                   offsets |-> mergeTypedArrays(loop.lists.offsetsArrays).value,
                   scales |-> mergeTypedArrays(loop.lists.scalesArrays).value]

\* the numbers 10, 20, 2, 1.5 and 1 + 2^-24; the last one is a double that is
\* no 32-bit float
Ten == [m |-> 5, e |-> 1]
Twenty == [m |-> 5, e |-> 2]
Two == [m |-> 1, e |-> 1]
OneAndHalf == [m |-> 3, e |-> -1]
OnePlusEps == [m |-> 16777217, e |-> -24]

\* the offsets and the scales a buildMergedText call is given
OffsetPairs == {<<Ten, Twenty>>, <<OnePlusEps, Two>>}
ScalePairs == {<<Two, Two>>, <<OneAndHalf, OnePlusEps>>}

\* the calls of the model: every font, strings, offsets and scales within the
\* bounds, the three lists of any lengths
BuildInputs ==
  {"loaded", "undefined"} \X SeqsOf(0..MaxGlyphs, 0, MaxInstances)
    \X SeqsOf(OffsetPairs, 0, MaxInstances) \X SeqsOf(ScalePairs, 0, MaxInstances)

InitBuild ==
  /\ \E in \in BuildInputs :
       /\ bFont = in[1]
       /\ textArray = in[2]
       /\ offsets = in[3]
       /\ scales = in[4]
  /\ built = None
  /\ buildPc = "start"
  /\ FillIdle /\ MergeIdle /\ PageIdle

\* the whole call; "hang" is the call that never comes back
BuildCall ==
  /\ buildPc = "start"
  /\ built' = buildMergedText(bFont, textArray, offsets, scales)
  /\ buildPc' = built'.status
  /\ UNCHANGED <<bFont, textArray, offsets, scales, fillVars, mergeVars, pageVars>>

NextBuild == BuildCall

SpecBuild == InitBuild /\ [][NextBuild]_vars

(***************************************************************************)
(* buildMergedText, observed at its index buffer: the same calls and one    *)
(* more, whose first string has as many vertices as a 16-bit index has      *)
(* values.  The state keeps the outcome and the merged index buffer.        *)
(***************************************************************************)
\* the glyphs whose vertices fill the range of a 16-bit index exactly
WideGlyphs == Uint16Range \div VerticesPerGlyph

WideInputs ==
  {<<"loaded", <<WideGlyphs, 1>>, <<<<Ten, Twenty>>, <<Ten, Twenty>>>>,
     <<<<Two, Two>>, <<Two, Two>>>>>>}

InitIndices ==
  /\ \E in \in BuildInputs \cup WideInputs :
       /\ bFont = in[1]
       /\ textArray = in[2]
       /\ offsets = in[3]
       /\ scales = in[4]
  /\ built = None
  /\ buildPc = "start"
  /\ FillIdle /\ MergeIdle /\ PageIdle

\* what the state keeps of the value buildMergedText returns
IndexBufferOf(result) ==
  IF result.status = "returned"
  THEN [status |-> "returned", indices |-> result.indices]
  ELSE result

IndicesCall ==
  /\ buildPc = "start"
  /\ built' = IndexBufferOf(buildMergedText(bFont, textArray, offsets, scales))
  /\ buildPc' = built'.status
  /\ UNCHANGED <<bFont, textArray, offsets, scales, fillVars, mergeVars, pageVars>>

NextIndices == IndicesCall

SpecIndices == InitIndices /\ [][NextIndices]_vars

(***************************************************************************)
(* Claims about buildMergedText                                            *)
(***************************************************************************)
\* the vertices and the indices of string i, and those of the strings before it
VerticesOf(i) == VerticesPerGlyph * textArray[i]
IndicesOf(i) == IndicesPerGlyph * textArray[i]

RECURSIVE VerticesBefore(_)
VerticesBefore(i) == IF i <= 1 THEN 0 ELSE VerticesOf(i - 1) + VerticesBefore(i - 1)

RECURSIVE IndicesBefore(_)
IndicesBefore(i) == IF i <= 1 THEN 0 ELSE IndicesOf(i - 1) + IndicesBefore(i - 1)

TotalVertices == VerticesBefore(Len(textArray) + 1)

\* the index buffer createTextAttributes gives string i, before any shift
LocalIndices(i) == createTextAttributes("loaded", textArray[i]).indices.data

\* every element of `local` plus d, as integers
Shifted(local, d) == AsSeq([j \in 1..Len(local) |-> local[j] + d])

RECURSIVE ShiftedFrom(_)
\* the strings' local index buffers from string i on, each index plus the
\* vertex counts of the strings before its own
ShiftedFrom(i) ==
  IF i > Len(textArray) THEN <<>>
  ELSE Shifted(LocalIndices(i), VerticesBefore(i)) \o ShiftedFrom(i + 1)

\* C1: when the call returns for N >= 1 strings, the merged index buffer is the
\* in-order concatenation of the strings' index buffers, every index of string i
\* being its local value plus the vertex counts of the strings before it.
C1_IndicesShiftedByPriorVertices ==
  (buildPc = "returned" /\ Len(textArray) >= 1) => built.indices.data = ShiftedFrom(1)

EqualLengths == Len(offsets) = Len(textArray) /\ Len(scales) = Len(textArray)

\* the stored indices are all in 0..top and one of them is top
MaxIs(data, top) ==
  /\ \A k \in 1..Len(data) : 0 <= data[k] /\ data[k] <= top
  /\ \E k \in 1..Len(data) : data[k] = top

\* C2: for every N >= 0 strings with as many offsets and scales, the call gives a
\* merged index buffer whose largest stored value is the total vertex count
\* minus one and whose stored values are all >= 0.
C2_MaxIndexIsTotalMinusOne ==
  (buildPc # "start" /\ bFont = "loaded" /\ EqualLengths) =>
    /\ buildPc = "returned"
    /\ MaxIs(built.indices.data, TotalVertices - 1)

\* the value `pair` once per vertex, x then y
Broadcast(pair, vertices) ==
  AsSeq([k \in 1..(Components * vertices) |-> pair[((k - 1) % Components) + 1]])

\* the pair of entry i of `list` as a Float32Array holds it
Rounded(list, i) == <<Fround(list[i][1]), Fround(list[i][2])>>

RECURSIVE ExactFrom(_, _)
\* entry i of `list` once per vertex of string i, from string i on
ExactFrom(list, i) ==
  IF i > Len(textArray) THEN <<>>
  ELSE (IF VerticesOf(i) = 0 THEN <<>> ELSE Broadcast(list[i], VerticesOf(i)))
         \o ExactFrom(list, i + 1)

RECURSIVE RoundedFrom(_, _)
\* the same with every entry rounded to 32-bit floats
RoundedFrom(list, i) ==
  IF i > Len(textArray) THEN <<>>
  ELSE (IF VerticesOf(i) = 0 THEN <<>> ELSE Broadcast(Rounded(list, i), VerticesOf(i)))
         \o RoundedFrom(list, i + 1)

SameLengths ==
  /\ Len(built.positions.data) = Components * TotalVertices
  /\ Len(built.offsets.data) = Components * TotalVertices
  /\ Len(built.scales.data) = Components * TotalVertices

\* C4 as stated: when the call returns, positions, offsets and scales have the
\* length 2 x total vertex count, and every vertex of string i carries the i-th
\* input offset pair and the i-th input scale pair.
C4_VerticesCarryInputPairs ==
  (buildPc = "returned") =>
    /\ SameLengths
    /\ built.offsets.data = ExactFrom(offsets, 1)
    /\ built.scales.data = ExactFrom(scales, 1)

\* C4 amended: the same, the pairs being the input pairs rounded to 32-bit floats.
C4_VerticesCarryRoundedPairs ==
  (buildPc = "returned") =>
    /\ SameLengths
    /\ built.offsets.data = RoundedFrom(offsets, 1)
    /\ built.scales.data = RoundedFrom(scales, 1)

\* C4's case: two strings of one and two glyphs, the first offset and the second
\* scale holding 1 + 2^-24, which the buffers hold as 1
C4_Witness ==
  /\ buildPc = "returned"
  /\ textArray = <<1, 2>>
  /\ offsets = <<<<OnePlusEps, Two>>, <<Ten, Twenty>>>>
  /\ scales = <<<<Two, Two>>, <<OneAndHalf, OnePlusEps>>>>
  /\ SubSeq(built.offsets.data, 1, 4) = <<NumOfInt(1), Two, NumOfInt(1), Two>>
  /\ SubSeq(built.offsets.data, 9, 12) = <<Ten, Twenty, Ten, Twenty>>
  /\ SubSeq(built.scales.data, 21, 24) = <<OneAndHalf, NumOfInt(1), OneAndHalf, NumOfInt(1)>>

\* C5: a call whose strings, offsets and scales are not of one length fails with
\* an error and returns no merged buffers.
C5_MismatchedLengthsThrow ==
  (buildPc # "start" /\ ~EqualLengths) => (buildPc = "threw" /\ built.status = "threw")

(***************************************************************************)
(* The page: init (App.js 28-59), createTextMesh (69-141), updateText      *)
(* (147-170) and the ticker callback (40-52).  A string of `strings` is    *)
(* modelled by its length, each of its hexadecimal digits being one glyph. *)
(***************************************************************************)
\* line 143: one string per cell of the grid of updateText (100 = 10 x 10)
NumStrings == GridX * GridY

\* Math.sin(a) * 0.25 + 1 and Math.cos(a) * 0.25 + 1 at whole seconds a, the
\* doubles cut to 30 significant bits
SinScale(a) ==
  CASE a = 0 -> [m |-> 1, e |-> 0]
    [] a = 1 -> [m |-> 162452809, e |-> -27]
    [] a = 2 -> [m |-> 658914747, e |-> -29]
    [] a = 3 -> [m |-> 555811719, e |-> -29]
    [] a = 4 -> [m |-> 870589201, e |-> -30]
    [] a = 5 -> [m |-> 816332549, e |-> -30]
    [] a = 6 -> [m |-> 998736797, e |-> -30]
    [] a = 7 -> [m |-> 625050161, e |-> -29]
    [] a = 8 -> [m |-> 83707541, e |-> -26]
    [] OTHER -> [m |-> 592184519, e |-> -29]

CosScale(a) ==
  CASE a = 0 -> [m |-> 5, e |-> -2]
    [] a = 1 -> [m |-> 152347265, e |-> -27]
    [] a = 2 -> [m |-> 481016629, e |-> -29]
    [] a = 3 -> [m |-> 807992737, e |-> -30]
    [] a = 4 -> [m |-> 898280701, e |-> -30]
    [] a = 5 -> [m |-> 287471703, e |-> -28]
    [] a = 6 -> [m |-> 332871393, e |-> -28]
    [] a = 7 -> [m |-> 79757245, e |-> -26]
    [] a = 8 -> [m |-> 129335557, e |-> -27]
    [] OTHER -> [m |-> 829162157, e |-> -30]

\* lines 153-161: entry i (from 1) of offsets and of scales belongs to the cell
\* x = (i - 1) div GridY, y = (i - 1) mod GridY
GridOffsets ==
  [i \in 1..(GridX * GridY) |->
     <<NumOfInt((((i - 1) \div GridY) - 5) * 80), NumOfInt((((i - 1) % GridY) - 5) * 64)>>]

GridScales(time) ==
  [i \in 1..(GridX * GridY) |->
     <<SinScale(time + ((i - 1) \div GridY)), CosScale(time + ((i - 1) % GridY))>>]

\* lines 70-76: the five buffers of a new mesh are empty
EmptyGeometry ==
  [position |-> NewTypedArray("Float32Array", 0),
   uv |-> NewTypedArray("Float32Array", 0),
   scale |-> NewTypedArray("Float32Array", 0),
   offset |-> NewTypedArray("Float32Array", 0),
   index |-> NewTypedArray("Uint16Array", 0)]

\* lines 165-169: the five updates
Uploaded(attributes) ==
  [position |-> attributes.positions,
   uv |-> attributes.uvs,
   scale |-> attributes.scales,
   offset |-> attributes.offsets,
   index |-> attributes.indices]

\* an upload that has sent the positions of the first string before the merge
\* is known to have failed
UploadEarly(attributes, geom, first) ==
  [attributes |-> attributes,
   geometry |-> IF attributes.status = "returned" THEN Uploaded(attributes)
                ELSE IF first.status = "returned"
                     THEN [geom EXCEPT !.position = first.positions]
                     ELSE geom]

updateTextUploadingEarly(fnt, geom, time) ==
  UploadEarly(buildMergedText(fnt, strings, GridOffsets, GridScales(time)), geom,
              createTextAttributes(fnt, strings[1]))

\* lines 163-169: the five updates follow the merge, and a merge that throws
\* leaves updateText before any of them
UploadOrKeep(attributes, geom) ==
  [attributes |-> attributes,
   geometry |-> IF attributes.status = "returned" THEN Uploaded(attributes) ELSE geom]

\* lines 147-170 at the clock reading `time`
updateText(fnt, geom, time) ==
  UploadOrKeep(buildMergedText(fnt, strings, GridOffsets, GridScales(time)), geom)

\* lines 9-26, 143-145: the module is loaded, init() waits for the font
Init ==
  /\ strings \in [1..NumStrings -> 0..MaxStringLength]
  /\ font = "undefined"
  /\ geometry = None
  /\ now = 0
  /\ pc = "loading"
  /\ rebuild = None
  /\ FillIdle /\ MergeIdle /\ BuildIdle

\* lines 61-67, 29: the font arrives, or an error and no font
LoadFNT ==
  /\ pc = "loading"
  /\ font' \in {"loaded", "undefined"}
  /\ pc' = "createTextMesh"
  /\ UNCHANGED <<strings, geometry, now, rebuild, fillVars, mergeVars, buildVars>>

\* line 31
CreateTextMesh ==
  /\ pc = "createTextMesh"
  /\ geometry' = EmptyGeometry
  /\ pc' = "updateText"
  /\ UNCHANGED <<strings, font, now, rebuild, fillVars, mergeVars, buildVars>>

\* one updateText at a reading of the clock that never runs backwards; when it
\* throws, init() is rejected or the ticker callback ends, and no frame follows
Updated(u, time) ==
  /\ now' = time
  /\ rebuild' = u.attributes
  /\ geometry' = u.geometry
  /\ pc' = IF u.attributes.status = "returned" THEN "ticking" ELSE "rejected"

RunUpdateText == \E time \in now..MaxTime : Updated(updateText(font, geometry, time), time)

\* lines 32-58: the first updateText, then the ticker callback is added
InitUpdateText ==
  /\ pc = "updateText"
  /\ RunUpdateText
  /\ UNCHANGED <<strings, font, fillVars, mergeVars, buildVars>>

\* lines 40-52: the ticker callback
Tick ==
  /\ pc = "ticking"
  /\ RunUpdateText
  /\ UNCHANGED <<strings, font, fillVars, mergeVars, buildVars>>

Next == LoadFNT \/ CreateTextMesh \/ InitUpdateText \/ Tick

Spec == Init /\ [][Next]_vars

(***************************************************************************)
(* Claim about updateText                                                  *)
(***************************************************************************)
\* the buffers are those of the new mesh or the five of one rebuild
FromOneRebuild ==
  \/ geometry = None
  \/ geometry = EmptyGeometry
  \/ \E time \in 0..MaxTime :
       geometry = updateText(font, EmptyGeometry, time).geometry

\* C9: when the rebuild of an updateText fails, none of the five buffers is
\* updated by it: all five are as the last successful updateText left them, so
\* the buffers always come from one and the same completed rebuild.
C9_FailedRebuildKeepsBuffers ==
  /\ [][(pc' = "rejected") => (geometry' = geometry)]_vars
  /\ [](rebuild.status = "returned" => geometry = Uploaded(rebuild))
  /\ []FromOneRebuild

\* C9's case: the second string has no glyph, the rebuild threw, and the
\* buffers are the empty ones the mesh was created with
C9_Witness ==
  /\ pc = "rejected"
  /\ font = "loaded"
  /\ strings[1] > 0
  /\ rebuild.status = "threw"
  /\ geometry = EmptyGeometry

====
